---- MODULE Spec2Model ----
(***************************************************************************)
(* The Lorenz notebook: solve_lorenz (seed, initial conditions, time grid, *)
(* one odeint call per initial condition, one plotted line per trajectory, *)
(* view_init/show) driven by the widgets of interactive(solve_lorenz, ...). *)
(*                                                                         *)
(* Reals are modelled exactly with integers: coordinates and coefficients  *)
(* are integers, the horizon max_time is counted in 1/TimeDen time units,  *)
(* grid points and colour-map positions are fractions <<n, d>>.            *)
(***************************************************************************)
EXTENDS Integers, Sequences, FiniteSets

VARIABLES
    kw,            \* the six widget values held by interactive(...)
    args,          \* keyword arguments of the current / last solve_lorenz call
    rng,           \* state of numpy's global random generator
    build,         \* what odeint does when handed an empty time grid
    pc,            \* position inside solve_lorenz ("idle" between calls)
    i,             \* index of the comprehension / for loop
    x0,            \* N-by-3 initial conditions
    t,             \* time grid
    x_t,           \* trajectories collected so far
    odeint_calls,  \* solver invocations of the current / last call
    colors,        \* one colour per trajectory
    fig,           \* the figure: drawn lines, camera, shown flag
    status,        \* "none", "running", "done", "failed"
    error,         \* where the exception of a failed call was raised
    caller,        \* what started the call: "display" or "change"
    displayed,     \* what the widget's output area shows
    sliders,       \* the widgets the session moves
    ref,           \* snapshot of one earlier invocation (parameters, results)
    probe          \* a direct evaluation of lorenz_deriv: inputs and result

vars == <<kw, args, rng, build, pc, i, x0, t, x_t, odeint_calls, colors, fig,
          status, error, caller, displayed, sliders, ref, probe>>

runVars == <<kw, args, rng, build, pc, i, x0, t, x_t, odeint_calls, colors,
             fig, status, error, caller, displayed, sliders, ref>>

-----------------------------------------------------------------------------
(* Bounds of the explored instance *)

MaxN == 2          \* trajectories per run: N in 0..MaxN
MinTicks == 2      \* horizons from -MinTicks ticks ...
MaxTicks == 4      \* ... to MaxTicks ticks (one tick is 0.003 time units)
MaxCoord == 2      \* probe states (x, y, z) in -MaxCoord..MaxCoord

(* Program constants *)

SamplesPerUnit == 250   \* int(250*max_time)
Seed == 1               \* np.random.seed(1)
Low == -15              \* -15 + 30 * random
Span == 30
Elev == 30              \* ax.view_init(30, angle)
LineWidth == 2          \* plt.setp(lines, linewidth=2)

(* Representation constants *)

TimeDen == 1000         \* max_time is counted in thousandths of a time unit
RandModulus == 7        \* the generator stand-in is s' = RandMult*s mod 7
RandMult == 3
LutSize == 256          \* entries of the jet colour map

\* explored horizons: multiples of 0.003 time units, negative ones included
\* (the slider built from the default max_time=4.0 spans -4.0 .. 12.0)
Horizons == {3 * k : k \in (0 - MinTicks)..MaxTicks}
Ns == 0..MaxN
Angles == {0, 90}
Sigmas == {0, 10}
Betas == {0, 2}
Rhos == {0, 28}
Coords == (0 - MaxCoord)..MaxCoord
ProbeCoefs == {0, 2, 10, 28}
ProbeTimes == {0, 5}

Params == {"N", "angle", "max_time", "sigma", "beta", "rho"}

Domain(p) ==
    CASE p = "N" -> Ns
      [] p = "angle" -> Angles
      [] p = "max_time" -> Horizons
      [] p = "sigma" -> Sigmas
      [] p = "beta" -> Betas
      [] p = "rho" -> Rhos

KwSpace == [N : Ns, angle : Angles, max_time : Horizons,
            sigma : Sigmas, beta : Betas, rho : Rhos]

-----------------------------------------------------------------------------
(* lorenz_deriv *)

lorenz_deriv_swapped(x_y_z, t0, sigma, beta, rho) ==
    LET x == x_y_z[1]
        y == x_y_z[2]
        z == x_y_z[3]
    IN  <<sigma * (x - y), x * (rho - z) - y, x * y - beta * z>>

lorenz_deriv_offset(x_y_z, t0, sigma, beta, rho) ==
    LET x == x_y_z[1]
        y == x_y_z[2]
        z == x_y_z[3]
    IN  <<sigma * (y - x), x * (rho - z) - y, x * y - beta * z + beta>>

lorenz_deriv(x_y_z, t0, sigma, beta, rho) ==
    LET x == x_y_z[1]
        y == x_y_z[2]
        z == x_y_z[3]
    IN  <<sigma * (y - x), x * (rho - z) - y, x * y - beta * z>>

-----------------------------------------------------------------------------
(* numpy: int(), random generator, linspace *)

\* Python's int() on the quotient n/d (d > 0): truncation towards zero.
IntTrunc(n, d) == IF n >= 0 THEN n \div d ELSE 0 - ((0 - n) \div d)

\* int(250*max_time), with max_time counted in 1/TimeDen
NumSamplesCeil(max_time) ==
    IF max_time >= 0
    THEN (SamplesPerUnit * max_time + TimeDen - 1) \div TimeDen
    ELSE IntTrunc(SamplesPerUnit * max_time, TimeDen)

NumSamples(max_time) == IntTrunc(SamplesPerUnit * max_time, TimeDen)

\* np.random.seed(s): the generator state is a function of the seed alone
SeedState(s) == 1 + (s % (RandModulus - 1))

\* one step of the generator
NextState(s) == (RandMult * s) % RandModulus

\* the value in [0, 1) delivered from state s, as a fraction of RandModulus - 1
Uniform(s) == s - 1

\* RandMult^n mod RandModulus, by repeated squaring
RECURSIVE PowMod(_)
PowMod(n) ==
    IF n = 0 THEN 1
    ELSE LET h == PowMod(n \div 2)
         IN  (h * h * (IF n % 2 = 0 THEN 1 ELSE RandMult)) % RandModulus

\* the state n steps after s: n times NextState, i.e. RandMult^n * s
StateAfter(s, n) == (PowMod(n) * s) % RandModulus

\* -15 + 30 * u for the n-th value drawn after state s
CoordWide(s, n) == Low + ((Span + 10) * Uniform(StateAfter(s, n))) \div (RandModulus - 1)

Coord(s, n) == Low + (Span * Uniform(StateAfter(s, n))) \div (RandModulus - 1)

\* the array filled column by column
InitialConditionsColumnMajor(s, N) ==
    [r \in 1..N |-> <<Coord(s, r), Coord(s, N + r), Coord(s, 2 * N + r)>>]

\* -15 + 30 * np.random.random((N, 3)): the array is filled row by row
InitialConditions(s, N) ==
    [r \in 1..N |-> <<Coord(s, 3 * (r - 1) + 1),
                      Coord(s, 3 * (r - 1) + 2),
                      Coord(s, 3 * (r - 1) + 3)>>]

\* fractions <<n, d>> with d > 0
FracEq(a, b) == a[1] * b[2] = b[1] * a[2]
FracSub(a, b) == <<a[1] * b[2] - b[1] * a[2], a[2] * b[2]>>

\* np.linspace(start, stop, num) for num >= 0, endpoint=True
LinspaceNoEndpoint(start, stop, num) ==
    [k \in 1..num |-> <<start * num + (k - 1) * (stop - start), num>>]

Linspace(start, stop, num) ==
    LET div == num - 1
    IN  [k \in 1..num |->
            IF num > 1 /\ k = num THEN <<stop, 1>>
            ELSE IF div > 0 THEN <<start * div + (k - 1) * (stop - start), div>>
            ELSE <<start + (k - 1) * (stop - start), 1>>]

-----------------------------------------------------------------------------
(* scipy: odeint(lorenz_deriv, x0i, t) on a grid with at least one point.   *)
(* Row 1 is the initial condition; the later rows stand in for the solver's *)
(* steps: each is obtained from the row before it and the vector field.     *)

VecAdd(a, b) == <<a[1] + b[1], a[2] + b[2], a[3] + b[3]>>

RECURSIVE OdeRows(_, _, _, _)
OdeRows(y0, grid, a, k) ==
    IF k = 1 THEN <<y0>>
    ELSE LET prev == OdeRows(y0, grid, a, k - 1)
         IN  Append(prev,
                    VecAdd(prev[k - 1],
                           lorenz_deriv(prev[k - 1], grid[k - 1],
                                        a.sigma, a.beta, a.rho)))

odeint(y0, grid, a) == IF Len(grid) = 0 THEN <<>> ELSE OdeRows(y0, grid, a, Len(grid))

-----------------------------------------------------------------------------
(* matplotlib: plt.cm.jet(position) picks an entry of the colour table *)

JetIndex(pos) ==
    LET k == (pos[1] * LutSize) \div pos[2]
    IN  IF k >= LutSize THEN LutSize - 1 ELSE k

\* the jet segment data: <<position in thousandths, value in halves>>
JetRed == <<<<0, 0>>, <<350, 0>>, <<660, 2>>, <<890, 2>>, <<1000, 1>>>>
JetGreen == <<<<0, 0>>, <<125, 0>>, <<375, 2>>, <<640, 2>>, <<910, 0>>, <<1000, 0>>>>
JetBlue == <<<<0, 1>>, <<110, 2>>, <<340, 2>>, <<650, 0>>, <<1000, 0>>>>

\* the first segment of seg that reaches position X (in 1/51000)
RECURSIVE SegmentAt(_, _, _)
SegmentAt(seg, X, m) ==
    IF m + 1 = Len(seg) \/ X <= 51 * seg[m + 1][1] THEN m
    ELSE SegmentAt(seg, X, m + 1)

\* entry j of a channel's table: the segment data interpolated linearly at
\* j/(LutSize - 1); positions are counted in 1/51000 (j/255 = 200j/51000,
\* b/1000 = 51b/51000), the value is a fraction <<n, d>> of halves
ChannelEntry(seg, j) ==
    LET X == 200 * j
        m == SegmentAt(seg, X, 1)
        B0 == 51 * seg[m][1]
        B1 == 51 * seg[m + 1][1]
    IN  <<seg[m][2] * (B1 - B0) + (seg[m + 1][2] - seg[m][2]) * (X - B0), B1 - B0>>

\* entry j of the jet table: red, green, blue
JetColor(j) == <<ChannelEntry(JetRed, j), ChannelEntry(JetGreen, j), ChannelEntry(JetBlue, j)>>

\* plt.cm.jet(position)
Jet(pos) == JetColor(JetIndex(pos))

\* two colours are the same when their three channels are equal
SameColor(a, b) == \A c \in 1..3 : FracEq(a[c], b[c])

\* line 101: the colour-map positions np.linspace(0, 1, N)
ColorPositionsNarrow(N) == [k \in 1..N |-> <<Linspace(0, 1, N)[k][1], 10 * Linspace(0, 1, N)[k][2]>>]

ColorPositions(N) == Linspace(0, 1, N)

Column(traj, c) == [k \in 1..Len(traj) |-> traj[k][c]]

EmptyFig == [lines |-> <<>>, view |-> <<>>, shown |-> FALSE]
Traceback == [kind |-> "traceback"]
Nothing == [kind |-> "nothing"]
NoRef == [key |-> <<>>, fresh |-> FALSE]
NoProbe == [state |-> <<0, 0, 0>>, t0 |-> 0, sigma |-> 0, beta |-> 0, rho |-> 0,
            out |-> <<>>]

-----------------------------------------------------------------------------
(* interactive(solve_lorenz, ...): every widget value is passed as a keyword *)

CallArgsDefaultBeta(k) == [k EXCEPT !.beta = 2]

CallArgs(k) == k

\* the parameters that decide the trajectories (angle only turns the camera)
Key(a) == <<a.N, a.max_time, a.sigma, a.beta, a.rho>>

\* np.random.seed(1) replaces whatever state the generator was in
KeepState(old) == old

Reseed(old) == SeedState(Seed)

\* solve_lorenz has no try/except: an exception raised at any position leaves
\* the function at once
ResumeAtColors(frame) == "colors"

Unwind(frame) == "idle"

\* line 97-98: the comprehension hands each row of x0, in order, to odeint
SolveForFirst(rows, k, grid, a) == odeint(rows[1], grid, a)

SolveFor(rows, k, grid, a) == odeint(rows[k], grid, a)

\* lines 104-106: line k is drawn from trajectory k with colour k
LineOfLast(trajs, cols, k) ==
    [x |-> Column(trajs[Len(trajs)], 1), y |-> Column(trajs[Len(trajs)], 2),
     z |-> Column(trajs[Len(trajs)], 3), c |-> cols[k], linewidth |-> LineWidth]

LineOf(trajs, cols, k) ==
    [x |-> Column(trajs[k], 1), y |-> Column(trajs[k], 2),
     z |-> Column(trajs[k], 3), c |-> cols[k], linewidth |-> LineWidth]

\* lines 77-84: a fresh figure and axes; the locals of the new call are unset
StartCall(k, who) ==
    /\ args' = CallArgs(k)
    /\ caller' = who
    /\ error' = "none"
    /\ fig' = EmptyFig
    /\ x0' = <<>>
    /\ t' = <<>>
    /\ x_t' = <<>>
    /\ colors' = <<>>
    /\ i' = 0
    /\ odeint_calls' = 0
    /\ status' = "running"
    /\ pc' = "seed"
    /\ ref' = [ref EXCEPT !.fresh = FALSE]
    /\ UNCHANGED <<rng, build, displayed, sliders, probe>>

\* display(w): the widget is shown and the function runs once
Display ==
    /\ pc = "idle"
    /\ status = "none"
    /\ UNCHANGED kw
    /\ StartCall(kw, "display")

\* a widget value changes: interactive calls solve_lorenz with all six values
Change(p, v) ==
    /\ pc = "idle"
    /\ status # "none"
    /\ p \in sliders
    /\ v # kw[p]
    /\ kw' = [kw EXCEPT ![p] = v]
    /\ StartCall(kw', "change")

\* an exception leaves solve_lorenz; interactive shows the traceback
Raise(frame) ==
    /\ status' = "failed"
    /\ error' = frame
    /\ pc' = Unwind(frame)
    /\ displayed' = Traceback

\* lines 92-93
SeedAndDraw ==
    /\ pc = "seed"
    /\ LET s == Reseed(rng)
       IN  /\ x0' = InitialConditions(s, args.N)
           /\ rng' = StateAfter(s, 3 * args.N)
    /\ pc' = "grid"
    /\ UNCHANGED <<kw, args, build, i, t, x_t, odeint_calls, colors, fig,
                   status, error, caller, displayed, sliders, ref, probe>>

\* line 96: np.linspace raises ValueError for a negative number of samples
BuildGrid ==
    /\ pc = "grid"
    /\ LET num == NumSamples(args.max_time)
       IN  IF num < 0
           THEN /\ Raise("grid")
                /\ UNCHANGED <<t, i>>
           ELSE /\ t' = Linspace(0, args.max_time, num)
                /\ i' = 1
                /\ pc' = IF args.N > 0 THEN "solve" ELSE "colors"
                /\ UNCHANGED <<status, error, displayed>>
    /\ UNCHANGED <<kw, args, rng, build, x0, x_t, odeint_calls, colors, fig,
                   caller, sliders, ref, probe>>

\* lines 97-98: one element of the list comprehension. odeint reads t[0]; on
\* an empty grid the outcome is the build's (an error, or an empty array)
Integrate ==
    /\ pc = "solve"
    /\ odeint_calls' = odeint_calls + 1
    /\ IF Len(t) = 0 /\ build = "raises"
       THEN /\ Raise("solve")
            /\ UNCHANGED <<x_t, i>>
       ELSE /\ x_t' = Append(x_t, SolveFor(x0, i, t, args))
            /\ i' = i + 1
            /\ pc' = IF i = args.N THEN "colors" ELSE "solve"
            /\ UNCHANGED <<status, error, displayed>>
    /\ UNCHANGED <<kw, args, rng, build, x0, t, colors, fig, caller, sliders,
                   ref, probe>>

\* line 101
ChooseColors ==
    /\ pc = "colors"
    /\ colors' = [k \in 1..args.N |-> Jet(ColorPositions(args.N)[k])]
    /\ i' = 1
    /\ pc' = IF args.N > 0 THEN "plot" ELSE "show"
    /\ UNCHANGED <<kw, args, rng, build, x0, t, x_t, odeint_calls, fig, status,
                   error, caller, displayed, sliders, ref, probe>>

\* lines 103-106: one pass of the for loop
PlotLine ==
    /\ pc = "plot"
    /\ fig' = [fig EXCEPT !.lines = Append(@, LineOf(x_t, colors, i))]
    /\ i' = i + 1
    /\ pc' = IF i = args.N THEN "show" ELSE "plot"
    /\ UNCHANGED <<kw, args, rng, build, x0, t, x_t, odeint_calls, colors,
                   status, error, caller, displayed, sliders, ref, probe>>

\* lines 108-109; the call returns and the output area shows the figure
Show ==
    /\ pc = "show"
    /\ fig' = [fig EXCEPT !.view = <<Elev, args.angle>>, !.shown = TRUE]
    /\ status' = "done"
    /\ displayed' = [kind |-> "plot", fig |-> fig']
    /\ pc' = "idle"
    /\ UNCHANGED <<kw, args, rng, build, i, x0, t, x_t, odeint_calls, colors,
                   error, caller, sliders, ref, probe>>

\* keep the parameters and results of the call that just ended
Snapshot ==
    /\ pc = "idle"
    /\ status \in {"done", "failed"}
    /\ ref' = [key |-> Key(args), fresh |-> TRUE, x0 |-> x0, x_t |-> x_t,
               status |-> status]
    /\ ref' # ref
    /\ UNCHANGED <<kw, args, rng, build, pc, i, x0, t, x_t, odeint_calls,
                   colors, fig, status, error, caller, displayed, sliders,
                   probe>>

\* lorenz_deriv called on its own
Evaluate ==
    /\ probe.out = <<>>
    /\ probe' = [probe EXCEPT !.out =
                    lorenz_deriv(probe.state, probe.t0, probe.sigma,
                                 probe.beta, probe.rho)]
    /\ UNCHANGED runVars

-----------------------------------------------------------------------------

\* before display(w): the generator is in whatever state the kernel left it
InitRun ==
    /\ rng \in 1..(RandModulus - 1)
    /\ build \in {"raises", "returns_empty"}
    /\ pc = "idle"
    /\ args = kw
    /\ i = 0
    /\ x0 = <<>>
    /\ t = <<>>
    /\ x_t = <<>>
    /\ odeint_calls = 0
    /\ colors = <<>>
    /\ fig = EmptyFig
    /\ status = "none"
    /\ error = "none"
    /\ caller = "none"
    /\ displayed = Nothing
    /\ ref = NoRef

\* the widgets stand at any position of the explored ranges (the defaults
\* N=10, max_time=4.0 lie beyond the explored instance)
Init ==
    /\ kw \in KwSpace
    /\ sliders = Params
    /\ probe = NoProbe
    /\ InitRun

Step ==
    \/ Display
    \/ \E p \in Params : \E v \in Domain(p) : Change(p, v)
    \/ SeedAndDraw
    \/ BuildGrid
    \/ Integrate
    \/ ChooseColors
    \/ PlotLine
    \/ Show

Next == Step

Spec == Init /\ [][Next]_vars

\* sessions that move N, the horizon and sigma, and compare two invocations
InitDet ==
    /\ kw \in {k \in KwSpace : k.angle = 0 /\ k.beta = 2 /\ k.rho = 28}
    /\ sliders = {"N", "max_time", "sigma"}
    /\ probe = NoProbe
    /\ InitRun

NextDet == Step \/ Snapshot

SpecDet == InitDet /\ [][NextDet]_vars

\* lorenz_deriv evaluated on drawn inputs
InitDeriv ==
    /\ kw \in {k \in KwSpace : k = [N |-> 0, angle |-> 0, max_time |-> 0,
                                     sigma |-> 0, beta |-> 0, rho |-> 0]}
    /\ sliders = {}
    /\ probe \in [state : Coords \X Coords \X Coords, t0 : ProbeTimes,
                  sigma : ProbeCoefs, beta : ProbeCoefs, rho : ProbeCoefs,
                  out : {<<>>}]
    /\ InitRun

NextDeriv == Evaluate

SpecDeriv == InitDeriv /\ [][NextDeriv]_vars

\* the pipeline over the whole range of the N widget, N=(0,50), on a horizon
\* of one sample; the session turns the camera
MaxColours == 50

InitColors ==
    /\ kw \in [N : 0..MaxColours, angle : Angles, max_time : {6},
                sigma : {10}, beta : {2}, rho : {28}]
    /\ sliders = {"angle"}
    /\ probe = NoProbe
    /\ InitRun

NextColors == Step

SpecColors == InitColors /\ [][NextColors]_vars

-----------------------------------------------------------------------------
(* Properties *)

\* the call has left line 96 with a grid (np.linspace returned)
GridBuilt == status # "none" /\ pc \notin {"seed", "grid"} /\ error # "grid"

\* the call has left line 93
Drawn == status # "none" /\ pc # "seed"

\* the call is over, one way or the other
Ended == pc = "idle" /\ status \in {"done", "failed"}

\* C1: for every state, coefficient triple and time argument, lorenz_deriv
\* returns the right-hand sides of the header's system, in the order x', y', z':
\* x' = sigma(y - x), y' = rho x - y - x z, z' = -beta z + x y
DerivIsHeaderSystem ==
    probe.out # <<>> =>
        LET x == probe.state[1]
            y == probe.state[2]
            z == probe.state[3]
        IN  probe.out = <<probe.sigma * (y - x),
                          probe.rho * x - y - x * z,
                          (0 - probe.beta) * z + x * y>>

DerivEvaluated ==
    /\ probe.out # <<>>
    /\ probe.state = <<1, 2, -1>>
    /\ probe.t0 = 5
    /\ probe.sigma = 10
    /\ probe.beta = 2
    /\ probe.rho = 28

\* C6: at x = y = z = 0 lorenz_deriv returns (0, 0, 0) whatever sigma, beta
\* and rho are
FixedPointDerivIsZero ==
    (probe.out # <<>> /\ probe.state = <<0, 0, 0>>) => probe.out = <<0, 0, 0>>

FixedPointEvaluated ==
    /\ probe.out # <<>>
    /\ probe.state = <<0, 0, 0>>
    /\ probe.sigma = 10
    /\ probe.beta = 2
    /\ probe.rho = 28

\* C2 as stated: with max_time = 0 every one of the N trajectories of a
\* finished run is exactly one sample, equal to its initial condition
ZeroHorizonSinglePoint ==
    (status = "done" /\ args.max_time = 0) =>
        /\ Len(x_t) = args.N
        /\ \A k \in 1..args.N : x_t[k] = <<x0[k]>>

\* C2 amended: a zero horizon gives a grid of int(250*0) = 0 points, so the
\* trajectories of a finished run hold no sample; a trajectory is exactly one
\* sample, equal to its initial condition, when the grid has exactly one
\* point, and whenever the grid is not empty its first sample is the initial
\* condition
SingleSampleIsInitialCondition ==
    /\ (GridBuilt /\ args.max_time = 0) => Len(t) = 0
    /\ status = "done" =>
        /\ Len(x_t) = args.N
        /\ \A k \in 1..args.N :
            /\ Len(t) = 0 => x_t[k] = <<>>
            /\ Len(t) = 1 => x_t[k] = <<x0[k]>>
            /\ Len(t) >= 1 => x_t[k][1] = x0[k]

SingleSampleRun ==
    /\ status = "done"
    /\ args.N = 2
    /\ Len(t) = 1
    /\ args.max_time > 0
    /\ x0[1] # x0[2]

\* C3 as stated: for every horizon the number of samples is max_time * 250
SampleCountIsProduct ==
    GridBuilt =>
        /\ Len(t) * TimeDen = SamplesPerUnit * args.max_time
        /\ \A k \in 1..Len(x_t) : Len(x_t[k]) * TimeDen = SamplesPerUnit * args.max_time

\* C3 amended: the number of samples is 250*max_time cut to a whole number,
\* int(250*max_time): for max_time >= 0 the largest whole number not above
\* 250*max_time (so it equals max_time*250 exactly when that is whole), 0 for
\* -1 < 250*max_time < 0; for 250*max_time <= -1 no grid is built, and every
\* trajectory has as many samples as the grid
SampleCountIsTruncatedProduct ==
    /\ GridBuilt =>
        /\ args.max_time >= 0 =>
            /\ Len(t) * TimeDen <= SamplesPerUnit * args.max_time
            /\ SamplesPerUnit * args.max_time < (Len(t) + 1) * TimeDen
        /\ args.max_time < 0 =>
            /\ Len(t) = 0
            /\ SamplesPerUnit * args.max_time > 0 - TimeDen
        /\ \A k \in 1..Len(x_t) : Len(x_t[k]) = Len(t)
    /\ error = "grid" =>
        /\ SamplesPerUnit * args.max_time <= 0 - TimeDen
        /\ t = <<>>
        /\ x_t = <<>>
    /\ (status # "none" /\ pc \notin {"seed", "grid"}
            /\ SamplesPerUnit * args.max_time <= 0 - TimeDen) => error = "grid"

TruncatedSampleCount ==
    /\ status = "done"
    /\ args.N >= 1
    /\ Len(t) = 2
    /\ SamplesPerUnit * args.max_time > 2 * TimeDen

\* C4: two invocations with equal N, max_time, sigma, beta, rho end the same
\* way with the same initial conditions and the same trajectories, whatever
\* ran before or between them
SameParametersSameTrajectories ==
    (Ended /\ ref.key = Key(args)) =>
        /\ ref.x0 = x0
        /\ ref.x_t = x_t
        /\ ref.status = status

RepeatedInvocation ==
    /\ Ended
    /\ status = "done"
    /\ ref.key = Key(args)
    /\ ~ref.fresh
    /\ args.N = 2
    /\ Len(t) >= 2

\* C5: x0 is an N-by-3 array, the same for every invocation with the same N
\* (whatever the other parameters and the earlier invocations), and each of
\* its coordinates lies in [-15, 15]
InitialConditionsInCube ==
    Drawn =>
        /\ Len(x0) = args.N
        /\ \A r \in 1..Len(x0) :
            /\ Len(x0[r]) = 3
            /\ \A c \in 1..3 : Low <= x0[r][c] /\ x0[r][c] <= Low + Span
        /\ (ref # NoRef /\ ref.key[1] = args.N) => ref.x0 = x0

SameNOtherParameters ==
    /\ Drawn
    /\ ref # NoRef
    /\ ~ref.fresh
    /\ args.N = 2
    /\ ref.key[1] = args.N
    /\ ref.key # Key(args)

\* the figure the pipeline yields for widget values k
ExpectedFigure(k) ==
    LET rows == [r \in 1..k.N |->
                    [c \in 1..3 |->
                        Low + (Span * Uniform(StateAfter(SeedState(Seed), 3 * (r - 1) + c)))
                                  \div (RandModulus - 1)]]
        num == IntTrunc(SamplesPerUnit * k.max_time, TimeDen)
        grid == Linspace(0, k.max_time, num)
        trajs == [r \in 1..k.N |-> odeint(rows[r], grid, k)]
        pos == Linspace(0, 1, k.N)
    IN  [lines |-> [r \in 1..k.N |->
                       [x |-> Column(trajs[r], 1), y |-> Column(trajs[r], 2),
                        z |-> Column(trajs[r], 3), c |-> Jet(pos[r]),
                        linewidth |-> LineWidth]],
         view |-> <<Elev, k.angle>>,
         shown |-> TRUE]

\* C7 as stated: after any change the output area shows the plot computed
\* from the current values of all six widgets
DisplayedPlotIsCurrent ==
    (Ended /\ caller = "change") =>
        /\ args = kw
        /\ displayed = [kind |-> "plot", fig |-> ExpectedFigure(kw)]

C7State ==
    /\ status # "none" => args = kw
    /\ (Ended /\ status = "done") =>
            displayed = [kind |-> "plot", fig |-> ExpectedFigure(kw)]
    /\ (Ended /\ status = "failed") => displayed = Traceback

C7Step ==
    /\ kw' # kw =>
        /\ pc = "idle"
        /\ pc' = "seed"
        /\ status' = "running"
        /\ args' = kw'
        /\ Cardinality({p \in Params : kw'[p] # kw[p]}) = 1
    /\ pc # "idle" => (kw' = kw /\ args' = args)
    /\ (pc = "idle" /\ pc' # "idle") => (kw' # kw \/ status = "none")

\* C7 amended: all six parameters are widget values; every change of one of
\* them starts exactly one synchronous call of solve_lorenz with the current
\* values of all six, no change is taken up while a call runs, and when the
\* call for the most recent values completes the output area shows the plot
\* computed from them; when that call fails the output area shows the
\* traceback and no plot
ChangeRunsPipelineOnce == Cardinality(Params) = 6 /\ []C7State /\ [][C7Step]_vars

PlotAfterChange ==
    /\ Ended
    /\ status = "done"
    /\ caller = "change"
    /\ displayed.kind = "plot"
    /\ kw.N = 2
    /\ kw.beta = 0
    /\ kw.angle = 90
    /\ Len(t) = 3

\* C8 as stated: whenever the grid has at least one point it starts at 0, ends
\* at max_time and its consecutive points are equally far apart
GridFromZeroToHorizon ==
    (GridBuilt /\ Len(t) >= 1) =>
        /\ FracEq(t[1], <<0, 1>>)
        /\ FracEq(t[Len(t)], <<args.max_time, 1>>)
        /\ \A k \in 1..(Len(t) - 2) :
            FracEq(FracSub(t[k + 1], t[k]), FracSub(t[k + 2], t[k + 1]))

\* C8 amended: a grid of at least two points starts at 0, ends at max_time and
\* its consecutive points are max_time/(points - 1) apart; a grid of one point
\* is the single time 0, whatever max_time is
GridEvenWithTwoPoints ==
    GridBuilt =>
        /\ Len(t) >= 2 =>
            /\ FracEq(t[1], <<0, 1>>)
            /\ FracEq(t[Len(t)], <<args.max_time, 1>>)
            /\ \A k \in 1..(Len(t) - 1) :
                FracEq(FracSub(t[k + 1], t[k]), <<args.max_time, Len(t) - 1>>)
        /\ Len(t) = 1 =>
            /\ FracEq(t[1], <<0, 1>>)
            /\ args.max_time > 0

ThreePointGrid ==
    /\ GridBuilt
    /\ Len(t) = 3
    /\ args.max_time > 0

\* C9 as stated: a run makes exactly N solver invocations, trajectory k being
\* odeint's result for initial condition k on the shared grid with the run's
\* coefficients, and draws exactly N lines, line k from trajectory k; with
\* N = 0 it invokes no solver, draws no line and completes without error
RunSolvesAndDrawsN ==
    Ended =>
        /\ odeint_calls = args.N
        /\ Len(x_t) = args.N
        /\ \A k \in 1..args.N : x_t[k] = odeint(x0[k], t, args)
        /\ Len(fig.lines) = args.N
        /\ \A k \in 1..args.N :
            /\ fig.lines[k].x = Column(x_t[k], 1)
            /\ fig.lines[k].y = Column(x_t[k], 2)
            /\ fig.lines[k].z = Column(x_t[k], 3)
        /\ args.N = 0 => status = "done"

\* C9 amended: a run that completes has made exactly N solver invocations,
\* trajectory k being odeint's result for initial condition k on the shared
\* grid with the run's coefficients, and has drawn exactly N lines, line k
\* from trajectory k; with N = 0 a run whose grid can be built
\* (int(250*max_time) >= 0) invokes no solver, draws no line and completes
\* without error, while for int(250*max_time) < 0 it fails at the grid
CompletedRunSolvesAndDrawsN ==
    /\ status = "done" =>
        /\ odeint_calls = args.N
        /\ Len(x_t) = args.N
        /\ \A k \in 1..args.N : x_t[k] = odeint(x0[k], t, args)
        /\ Len(fig.lines) = args.N
        /\ \A k \in 1..args.N :
            /\ fig.lines[k].x = Column(x_t[k], 1)
            /\ fig.lines[k].y = Column(x_t[k], 2)
            /\ fig.lines[k].z = Column(x_t[k], 3)
            /\ fig.lines[k].c = colors[k]
    /\ (Ended /\ args.N = 0) =>
        /\ odeint_calls = 0
        /\ fig.lines = <<>>
        /\ status = "done" <=> SamplesPerUnit * args.max_time > 0 - TimeDen
    /\ status # "none" =>
        /\ Len(x_t) <= odeint_calls
        /\ odeint_calls <= args.N
        /\ Len(fig.lines) <= Len(x_t)

TwoTrajectoriesDrawn ==
    /\ status = "done"
    /\ args.N = 2
    /\ Len(t) = 3
    /\ Len(fig.lines) = 2
    /\ x_t[1] # x_t[2]

\* C10: an exception raised while building the grid or in a solver invocation
\* leaves solve_lorenz at once; since every integration precedes the first
\* plotted line, a failed run has drawn no line, has not reached
\* view_init/show, and no plot of it is displayed
FailurePropagatesBeforeDrawing ==
    /\ error # "none" => (status = "failed" /\ pc = "idle")
    /\ status = "failed" =>
        /\ error \in {"grid", "solve"}
        /\ pc = "idle"
        /\ fig.lines = <<>>
        /\ fig.view = <<>>
        /\ ~fig.shown
        /\ displayed.kind # "plot"
    /\ (fig.lines # <<>> \/ pc \in {"plot", "show"}) =>
        /\ Len(x_t) = args.N
        /\ odeint_calls = args.N
        /\ status # "failed"

FailedRun ==
    /\ status = "failed"
    /\ error = "grid"
    /\ x0 # <<>>
    /\ caller = "change"
    /\ args.N = 2

\* line 101 has run in the current / last call
ColoursChosen == pc \in {"plot", "show"} \/ status = "done"

\* C11: trajectory i (counted from 0) takes the colour at colour-map position
\* i/(N-1) when N >= 2 and at position 0 when N = 1; for every N in 1..50 the
\* positions of two different trajectories differ and so do their colours,
\* and each drawn line carries the colour of its trajectory
TrajectoriesHaveDistinctColours ==
    ColoursChosen =>
        /\ Len(colors) = args.N
        /\ args.N = 1 => SameColor(colors[1], Jet(<<0, 1>>))
        /\ args.N >= 2 =>
            \A k \in 1..args.N : SameColor(colors[k], Jet(<<k - 1, args.N - 1>>))
        /\ \A k, l \in 1..args.N :
            k # l =>
                /\ ~FracEq(<<k - 1, args.N - 1>>, <<l - 1, args.N - 1>>)
                /\ ~SameColor(colors[k], colors[l])
        /\ \A k, l \in 1..Len(fig.lines) :
            k # l => ~SameColor(fig.lines[k].c, fig.lines[l].c)

FiftyColouredLines ==
    /\ status = "done"
    /\ args.N = MaxColours
    /\ Len(fig.lines) = MaxColours
    /\ caller = "change"

\* the smaller of two trajectory counts
Fewer(a, b) == IF a <= b THEN a ELSE b

\* the parameters other than N that decide the trajectories
OtherKey(k) == <<k[2], k[3], k[4], k[5]>>

\* C12: the initial conditions of two invocations agree on the rows both
\* have (the first N rows of a run with N' >= N trajectories are the rows of a
\* run with N), whatever the other parameters are; with the other parameters
\* equal, two completed runs also agree on the trajectories both have, so
\* raising N only adds trajectories at the end and lowering N only removes
\* the last ones
InitialConditionsPrefixStable ==
    /\ (Drawn /\ ref # NoRef) =>
        LET m == Fewer(ref.key[1], args.N)
        IN  /\ Len(ref.x0) = ref.key[1]
            /\ Len(x0) = args.N
            /\ SubSeq(ref.x0, 1, m) = SubSeq(x0, 1, m)
    /\ (Ended /\ ref # NoRef /\ status = "done" /\ ref.status = "done"
            /\ OtherKey(ref.key) = OtherKey(Key(args))) =>
        LET m == Fewer(ref.key[1], args.N)
        IN  /\ Len(ref.x_t) = ref.key[1]
            /\ Len(x_t) = args.N
            /\ SubSeq(ref.x_t, 1, m) = SubSeq(x_t, 1, m)

RaisedN ==
    /\ Ended
    /\ status = "done"
    /\ ref # NoRef
    /\ ref.status = "done"
    /\ ~ref.fresh
    /\ ref.key[1] = 1
    /\ args.N = 2
    /\ OtherKey(ref.key) = OtherKey(Key(args))
    /\ Len(t) >= 2
    /\ x_t[1] # x_t[2]

====
